---- MODULE Spec2Model ----
(***************************************************************************)
(* A model of svg2img.py: the script that encodes an SVG file as a data    *)
(* URI, writes one throwaway HTML document per requested output format,    *)
(* drives a browser to export the rendered canvas, and removes the         *)
(* document afterwards.                                                    *)
(*                                                                         *)
(* Text is modelled as sequences: a file's content is a sequence of bytes  *)
(* (0..255), decoded text is a sequence of code points, and ASCII strings  *)
(* that are taken apart (the data URI) are sequences of one-character      *)
(* strings.  File names are tuples of their parts, e.g.                    *)
(* <<"temp_output_", "png", ".html">> for temp_output_png.html.            *)
(***************************************************************************)
EXTENDS Integers, Sequences, FiniteSets, TLC

\* ------------------------------------------------------------------ bounds

\* Longest SVG file content (in bytes) the encoder is tried on.
MaxLen == 3

\* Longest configured list of output formats.
MaxFormats == 2

\* The bytes file contents are built from: LF, CR, "<", and the two bytes of
\* U+00E9 (0xC3 0xA9), which are valid UTF-8 only as that pair.
ByteSet == {10, 13, 60, 195, 169}

\* The values a configured format may take; "gif" stands for any invalid one.
FormatValues == {"png", "jpg", "gif"}

\* ----------------------------------------------------------------- helpers

RECURSIVE SeqsUpTo(_, _)
SeqsUpTo(S, n) ==
    IF n = 0 THEN {<<>>}
    ELSE LET shorter == SeqsUpTo(S, n - 1)
         IN  shorter \cup {Append(s, x) : s \in {t \in shorter : Len(t) = n - 1}, x \in S}

\* The file system after writing `value` under `name` (overwriting).
FsWrite(f, name, value) ==
    [n \in (DOMAIN f) \cup {name} |-> IF n = name THEN value ELSE f[n]]

\* The file system after unlinking `name`.
FsUnlink(f, name) == [n \in (DOMAIN f) \ {name} |-> f[n]]

\* ----------------------------------------------------------------- encoder

\* OUTPUT_FORMATS = ["png", "jpg"]
OUTPUT_FORMATS == <<"png", "jpg">>

\* Number of bytes of the UTF-8 sequence that starts bs, 0 when bs starts
\* with no well-formed sequence (the strict 'utf-8' codec of open()).
Utf8SeqLen(bs) ==
    LET b0 == bs[1]
        IsCont(i) == i <= Len(bs) /\ bs[i] \in 128..191
    IN  CASE b0 < 128 -> 1
          [] b0 \in 194..223 /\ IsCont(2) -> 2
          [] /\ b0 \in 224..239 /\ IsCont(2) /\ IsCont(3)
             /\ (b0 = 224 => bs[2] >= 160)
             /\ (b0 = 237 => bs[2] <= 159) -> 3
          [] /\ b0 \in 240..244 /\ IsCont(2) /\ IsCont(3) /\ IsCont(4)
             /\ (b0 = 240 => bs[2] >= 144)
             /\ (b0 = 244 => bs[2] <= 143) -> 4
          [] OTHER -> 0

\* The code point of the well-formed n-byte sequence that starts bs.
Utf8CodePoint(bs, n) ==
    CASE n = 1 -> bs[1]
      [] n = 2 -> ((bs[1] - 192) * 64) + (bs[2] - 128)
      [] n = 3 -> ((bs[1] - 224) * 4096) + ((bs[2] - 128) * 64) + (bs[3] - 128)
      [] OTHER -> ((bs[1] - 240) * 262144) + ((bs[2] - 128) * 4096)
                  + ((bs[3] - 128) * 64) + (bs[4] - 128)

\* Decoding bytes as UTF-8: ok is FALSE on a UnicodeDecodeError.
RECURSIVE Utf8Decode(_)
Utf8Decode(bs) ==
    IF bs = <<>> THEN [ok |-> TRUE, cps |-> <<>>]
    ELSE LET n == Utf8SeqLen(bs)
         IN  IF n = 0 THEN [ok |-> FALSE, cps |-> <<>>]
             ELSE LET rest == Utf8Decode(SubSeq(bs, n + 1, Len(bs)))
                  IN  [ok  |-> rest.ok,
                       cps |-> <<Utf8CodePoint(bs, n)>> \o rest.cps]

\* Text mode ('r', newline=None): "\r\n" and a lone "\r" are read as "\n".
RECURSIVE UniversalNewlines(_)
UniversalNewlines(cps) ==
    IF cps = <<>> THEN <<>>
    ELSE IF cps[1] = 13
         THEN IF Len(cps) > 1 /\ cps[2] = 10
              THEN <<10>> \o UniversalNewlines(SubSeq(cps, 3, Len(cps)))
              ELSE <<10>> \o UniversalNewlines(Tail(cps))
         ELSE <<cps[1]>> \o UniversalNewlines(Tail(cps))

\* with open(svg_file_path, 'r', encoding='utf-8') as f: svg_content = f.read()
ReadText(bs) ==
    LET d == Utf8Decode(bs)
    IN  [ok |-> d.ok, text |-> IF d.ok THEN UniversalNewlines(d.cps) ELSE <<>>]

\* svg_content.encode('utf-8')
RECURSIVE Utf8Encode(_)
Utf8Encode(cps) ==
    IF cps = <<>> THEN <<>>
    ELSE LET c == cps[1]
             head == CASE c < 128 -> <<c>>
                       [] c >= 128 /\ c < 2048 ->
                            <<192 + (c \div 64), 128 + (c % 64)>>
                       [] c >= 2048 /\ c < 65536 ->
                            <<224 + (c \div 4096), 128 + ((c \div 64) % 64), 128 + (c % 64)>>
                       [] OTHER ->
                            <<240 + (c \div 262144), 128 + ((c \div 4096) % 64),
                              128 + ((c \div 64) % 64), 128 + (c % 64)>>
         IN  head \o Utf8Encode(Tail(cps))

\* The base64 alphabet of base64.b64encode, index 0 first.
B64Alphabet ==
    <<"A","B","C","D","E","F","G","H","I","J","K","L","M","N","O","P",
      "Q","R","S","T","U","V","W","X","Y","Z","a","b","c","d","e","f",
      "g","h","i","j","k","l","m","n","o","p","q","r","s","t","u","v",
      "w","x","y","z","0","1","2","3","4","5","6","7","8","9","+","/">>

B64Char(i) == B64Alphabet[i + 1]

\* A plausible slip: the last sextet of a two-byte tail is not shifted.
RECURSIVE b64encode_unshifted_tail(_)
b64encode_unshifted_tail(bs) ==
    CASE Len(bs) = 0 -> <<>>
      [] Len(bs) = 1 ->
           <<B64Char(bs[1] \div 4), B64Char((bs[1] % 4) * 16), "=", "=">>
      [] Len(bs) = 2 ->
           <<B64Char(bs[1] \div 4),
             B64Char(((bs[1] % 4) * 16) + (bs[2] \div 16)),
             B64Char(bs[2] % 16), "=">>
      [] OTHER ->
           <<B64Char(bs[1] \div 4),
             B64Char(((bs[1] % 4) * 16) + (bs[2] \div 16)),
             B64Char(((bs[2] % 16) * 4) + (bs[3] \div 64)),
             B64Char(bs[3] % 64)>> \o b64encode_unshifted_tail(SubSeq(bs, 4, Len(bs)))

\* base64.b64encode(svg_bytes).decode('utf-8'): the characters of the payload.
RECURSIVE b64encode(_)
b64encode(bs) ==
    CASE Len(bs) = 0 -> <<>>
      [] Len(bs) = 1 ->
           <<B64Char(bs[1] \div 4), B64Char((bs[1] % 4) * 16), "=", "=">>
      [] Len(bs) = 2 ->
           <<B64Char(bs[1] \div 4),
             B64Char(((bs[1] % 4) * 16) + (bs[2] \div 16)),
             B64Char((bs[2] % 16) * 4), "=">>
      [] OTHER ->
           <<B64Char(bs[1] \div 4),
             B64Char(((bs[1] % 4) * 16) + (bs[2] \div 16)),
             B64Char(((bs[2] % 16) * 4) + (bs[3] \div 64)),
             B64Char(bs[3] % 64)>> \o b64encode(SubSeq(bs, 4, Len(bs)))

\* 'data:image/svg+xml;charset=utf-8;base64,'
DataUriPrefix ==
    <<"d","a","t","a",":","i","m","a","g","e","/","s","v","g","+","x","m","l",
      ";","c","h","a","r","s","e","t","=","u","t","f","-","8",
      ";","b","a","s","e","6","4",",">>

\* A plausible slip: a missing file is read as an empty one instead of raising.
svg_to_img_data_uri_missing_as_empty(f, svg_file_path) ==
    LET r == IF svg_file_path \in DOMAIN f
             THEN ReadText(f[svg_file_path].body)
             ELSE [ok |-> TRUE, text |-> <<>>]
    IN  IF ~r.ok
        THEN [raised |-> "UnicodeDecodeError", value |-> <<>>]
        ELSE [raised |-> "none",
              value  |-> DataUriPrefix \o b64encode(Utf8Encode(r.text))]

\* svg_to_img_data_uri(svg_file_path) on the file system f: the exception
\* it raises ("none" on a normal return) and the string it returns.
svg_to_img_data_uri(f, svg_file_path) ==
    IF svg_file_path \notin DOMAIN f
    THEN [raised |-> "FileNotFoundError", value |-> <<>>]
    ELSE LET r == ReadText(f[svg_file_path].body)
         IN  IF ~r.ok
             THEN [raised |-> "UnicodeDecodeError", value |-> <<>>]
             ELSE [raised |-> "none",
                   value  |-> DataUriPrefix \o b64encode(Utf8Encode(r.text))]

\* -------------------------------------------------------- document builder

\* output_format not in ("png", "jpg") is skipped.  A plausible slip: no check.
AnyFormat(output_format) == TRUE

ValidFormat(output_format) == output_format \in {"png", "jpg"}

\* basename = os.path.splitext(os.path.basename(svg_file))[0]
basename(path) == path[1]

\* A plausible slip: the extension is not taken from the format.
output_filename_fixed_ext(base, output_format) == <<base, ".", "png">>

\* output_filename = f"{basename}.{output_format}"
output_filename(base, output_format) == <<base, ".", output_format>>

\* html_filename = f"temp_output_{output_format}.html"
html_filename(output_format) == <<"temp_output_", output_format, ".html">>

\* The part the two button labels share, romanised (the source's labels are
\* "PNG" and "JPG" followed by the same Japanese words for "save as").
LabelSuffix == "toshite hozon"

\* mime = "image/png" if output_format == "png" else "image/jpeg"
mime(output_format) == IF output_format = "png" THEN "image/png" ELSE "image/jpeg"

\* quality = "undefined" if output_format == "png" else "0.95"
quality(output_format) == IF output_format = "png" THEN "undefined" ELSE "0.95"

\* A plausible slip: the label is the same for both formats.
generate_html_button_text_always_png(output_format) == <<"PNG", LabelSuffix>>

\* generate_html's button_text
generate_html_button_text(output_format) ==
    IF output_format = "png" THEN <<"PNG", LabelSuffix>> ELSE <<"JPG", LabelSuffix>>

\* fill_background is non-empty (paint the canvas white) only for "jpg"
fill_background(output_format) == output_format = "jpg"

\* The arguments the script passes to canvas.toDataURL
toDataURL_args(output_format) ==
    IF output_format = "jpg"
    THEN <<mime(output_format), quality(output_format)>>
    ELSE <<mime(output_format)>>

\* html_content: the parts of the document that depend on the arguments.
html_content(uri, out_name, output_format) ==
    [title           |-> <<"SVG to ", output_format>>,
     img_src         |-> uri,
     fill_background |-> fill_background(output_format),
     toDataURL       |-> toDataURL_args(output_format),
     download        |-> out_name,
     button_text     |-> generate_html_button_text(output_format)]

\* auto_download's button_text
auto_download_button_text(output_format) ==
    IF output_format = "png" THEN <<"PNG", LabelSuffix>> ELSE <<"JPG", LabelSuffix>>

\* What the browser hands to the download when the document's script runs:
\* the canvas, painted white first when the document says so, encoded with
\* the arguments the document gives toDataURL, under the a.download name.
BrowserDownload(doc) ==
    [suggested_filename |-> doc.download,
     image |-> [img_src    |-> doc.img_src,
                background |-> IF doc.fill_background THEN "white" ELSE "transparent",
                encoding   |-> doc.toDataURL]]

\* ------------------------------------------------------------------- state

VARIABLES
    pc,           \* where the script is
    svg_file,     \* sys.argv[1]
    formats,      \* the configured list of output formats
    fs,           \* the working directory: file name -> [kind, body]
    trash,        \* names of the files moved to the trash
    data_uri,     \* main's data_uri
    idx,          \* position of the for loop in formats (1-based)
    exc,          \* the step that raised the exception in flight, or "none"
    pw,           \* "on" inside `with sync_playwright()`, else "off"
    nLaunched,    \* browsers launched so far; the newest one's id
    browserOpen,  \* ids of the launched browsers not closed
    contextOpen,  \* ids of the browsers whose context is created and not closed
    page,         \* <<document>> once page.goto has loaded it, else <<>>
    download,     \* <<download>> once the click has started one, else <<>>
    log           \* what has been done and printed, in order: <<tag, argument>>

vars == <<pc, svg_file, formats, fs, trash, data_uri, idx, exc, pw, nLaunched,
          browserOpen, contextOpen, page, download, log>>

output_format == formats[idx]

EmptyFs == [n \in {} |-> [kind |-> "none", body |-> <<>>]]

SvgFile(bytes) == [kind |-> "svg", body |-> bytes]

InitWith(contents) ==
    /\ pc = "start"
    /\ svg_file = <<"logo", ".svg">>
    /\ fs \in {EmptyFs} \cup {FsWrite(EmptyFs, svg_file, SvgFile(c)) : c \in contents}
    /\ trash = {}
    /\ data_uri = <<>>
    /\ idx = 1
    /\ exc = "none"
    /\ pw = "off"
    /\ nLaunched = 0
    /\ browserOpen = {}
    /\ contextOpen = {}
    /\ page = <<>>
    /\ download = <<>>
    /\ log = <<>>

\* The whole run, started with a path argument (the usage exit of a run with
\* no argument comes before everything modelled here): any configured list of
\* formats, an SVG file that is missing, well-formed or not UTF-8.
Init ==
    /\ formats \in SeqsUpTo(FormatValues, MaxFormats)
    /\ InitWith(SeqsUpTo(ByteSet, 1))

\* The encoder alone: every file content up to MaxLen bytes.
InitEnc ==
    /\ formats = OUTPUT_FORMATS
    /\ InitWith(SeqsUpTo(ByteSet, MaxLen))

\* -------------------------------------------------------------------- main

\* except Exception as e: print(...) around the whole of main's work: the
\* exception raised at `step` ends the run.
MainExcept(step) ==
    /\ pc' = "aborted"
    /\ exc' = step
    /\ log' = Append(log, <<"print_error", step>>)

\* data_uri = svg_to_img_data_uri(svg_file)
MainEncode ==
    /\ pc = "start"
    /\ LET r == svg_to_img_data_uri(fs, svg_file)
       IN  \/ /\ r.raised = "none"
              /\ data_uri' = r.value
              /\ pc' = "loop"
              /\ UNCHANGED <<exc, log>>
           \/ /\ r.raised # "none"
              /\ MainExcept(r.raised)
              /\ UNCHANGED data_uri
    /\ UNCHANGED <<svg_file, formats, fs, trash, idx, pw, nLaunched,
                   browserOpen, contextOpen, page, download>>

\* for output_format in OUTPUT_FORMATS: the list is exhausted.
LoopDone ==
    /\ pc = "loop"
    /\ idx > Len(formats)
    /\ pc' = "done"
    /\ UNCHANGED <<svg_file, formats, fs, trash, data_uri, idx, exc, pw, nLaunched,
                   browserOpen, contextOpen, page, download, log>>

\* if output_format not in ("png", "jpg"): print a warning; continue
SkipInvalid ==
    /\ pc = "loop"
    /\ idx <= Len(formats)
    /\ ~ValidFormat(output_format)
    /\ log' = Append(log, <<"print_invalid", output_format>>)
    /\ idx' = idx + 1
    /\ UNCHANGED <<pc, svg_file, formats, fs, trash, data_uri, exc, pw, nLaunched,
                   browserOpen, contextOpen, page, download>>

\* generate_html(data_uri, output_filename, html_filename, output_format):
\* the document is written, or opening/writing the file raises.
GenerateHtml ==
    /\ pc = "loop"
    /\ idx <= Len(formats)
    /\ ValidFormat(output_format)
    /\ \/ /\ fs' = FsWrite(fs, html_filename(output_format),
                          [kind |-> "html",
                           body |-> html_content(data_uri,
                                        output_filename(basename(svg_file), output_format),
                                        output_format)])
          /\ log' = Append(log, <<"generate_html", idx>>)
          /\ pc' = "sync_playwright"
          /\ UNCHANGED exc
       \/ /\ MainExcept("generate_html")
          /\ UNCHANGED fs
    /\ UNCHANGED <<svg_file, formats, trash, data_uri, idx, pw, nLaunched,
                   browserOpen, contextOpen, page, download>>

\* ----------------------------------------------------------- auto_download

\* with sync_playwright() as p: entering the block, or failing to.
StartPlaywright ==
    /\ pc = "sync_playwright"
    /\ \/ /\ pw' = "on"
          /\ pc' = "launch"
          /\ UNCHANGED <<exc, log>>
       \/ /\ MainExcept("sync_playwright")
          /\ UNCHANGED pw
    /\ UNCHANGED <<svg_file, formats, fs, trash, data_uri, idx, nLaunched,
                   browserOpen, contextOpen, page, download>>

\* browser = p.chromium.launch(headless=False), before the try block.
Launch ==
    /\ pc = "launch"
    /\ \/ /\ nLaunched' = nLaunched + 1
          /\ browserOpen' = browserOpen \cup {nLaunched + 1}
          /\ log' = Append(log, <<"launch", nLaunched + 1>>)
          /\ pc' = "new_context"
          /\ UNCHANGED exc
       \/ /\ exc' = "launch"
          /\ pc' = "with_exit"
          /\ UNCHANGED <<nLaunched, browserOpen, log>>
    /\ UNCHANGED <<svg_file, formats, fs, trash, data_uri, idx, pw,
                   contextOpen, page, download>>

\* context = browser.new_context(accept_downloads=True), before the try block.
NewContext ==
    /\ pc = "new_context"
    /\ \/ /\ contextOpen' = contextOpen \cup {nLaunched}
          /\ log' = Append(log, <<"new_context", nLaunched>>)
          /\ pc' = "new_page"
          /\ UNCHANGED exc
       \/ /\ exc' = "new_context"
          /\ pc' = "with_exit"
          /\ UNCHANGED <<contextOpen, log>>
    /\ UNCHANGED <<svg_file, formats, fs, trash, data_uri, idx, pw, nLaunched,
                   browserOpen, page, download>>

\* page = context.new_page(), before the try block.
NewPage ==
    /\ pc = "new_page"
    /\ \/ /\ pc' = "goto"
          /\ UNCHANGED exc
       \/ /\ exc' = "new_page"
          /\ pc' = "with_exit"
    /\ UNCHANGED <<svg_file, formats, fs, trash, data_uri, idx, pw, nLaunched,
                   browserOpen, contextOpen, page, download, log>>

\* try: page.goto(html_url) loads the document at html_path, or raises.
Goto ==
    /\ pc = "goto"
    /\ \/ /\ html_filename(output_format) \in DOMAIN fs
          /\ page' = <<fs[html_filename(output_format)].body>>
          /\ pc' = "click"
          /\ UNCHANGED exc
       \/ /\ exc' = "goto"
          /\ pc' = "context_close"
          /\ UNCHANGED page
    /\ UNCHANGED <<svg_file, formats, fs, trash, data_uri, idx, pw, nLaunched,
                   browserOpen, contextOpen, download, log>>

\* page.click(f"text={button_text}"): the control is found by its visible
\* text and its script starts the download; or the click raises (no control
\* with that text, or a browser failure).
Click ==
    /\ pc = "click"
    /\ \/ /\ page[1].button_text = auto_download_button_text(output_format)
          /\ download' = <<BrowserDownload(page[1])>>
          /\ pc' = "expect_download"
          /\ UNCHANGED exc
       \/ /\ exc' = "click"
          /\ pc' = "context_close"
          /\ UNCHANGED download
    /\ UNCHANGED <<svg_file, formats, fs, trash, data_uri, idx, pw, nLaunched,
                   browserOpen, contextOpen, page, log>>

\* End of `with page.expect_download()`: the download event arrives, or the
\* wait raises.
ExpectDownload ==
    /\ pc = "expect_download"
    /\ \/ /\ pc' = "save_as"
          /\ UNCHANGED exc
       \/ /\ exc' = "expect_download"
          /\ pc' = "context_close"
    /\ UNCHANGED <<svg_file, formats, fs, trash, data_uri, idx, pw, nLaunched,
                   browserOpen, contextOpen, page, download, log>>

\* save_path = os.path.join(download_dir, download.suggested_filename);
\* download.save_as(save_path); print: the file is written, or save_as raises.
SaveAs ==
    /\ pc = "save_as"
    /\ \/ /\ fs' = FsWrite(fs, download[1].suggested_filename,
                          [kind |-> "image", body |-> download[1].image])
          /\ log' = Append(log, <<"saved", download[1].suggested_filename>>)
          /\ UNCHANGED exc
       \/ /\ exc' = "save_as"
          /\ UNCHANGED <<fs, log>>
    /\ pc' = "context_close"
    /\ UNCHANGED <<svg_file, formats, trash, data_uri, idx, pw, nLaunched,
                   browserOpen, contextOpen, page, download>>

\* finally: context.close(); if it raises, browser.close() is not reached.
ContextClose ==
    /\ pc = "context_close"
    /\ \/ /\ contextOpen' = contextOpen \ {nLaunched}
          /\ log' = Append(log, <<"context.close", nLaunched>>)
          /\ pc' = "browser_close"
          /\ UNCHANGED exc
       \/ /\ exc' = "context.close"
          /\ pc' = "with_exit"
          /\ UNCHANGED <<contextOpen, log>>
    /\ UNCHANGED <<svg_file, formats, fs, trash, data_uri, idx, pw, nLaunched,
                   browserOpen, page, download>>

\* A plausible slip: the browser is not closed after the context.
BrowserCloseForgotten ==
    /\ pc = "browser_close"
    /\ pc' = "with_exit"
    /\ UNCHANGED <<svg_file, formats, fs, trash, data_uri, idx, exc, pw, nLaunched,
                   browserOpen, contextOpen, page, download, log>>

\* finally: browser.close()
BrowserClose ==
    /\ pc = "browser_close"
    /\ \/ /\ browserOpen' = browserOpen \ {nLaunched}
          /\ log' = Append(log, <<"browser.close", nLaunched>>)
          /\ UNCHANGED exc
       \/ /\ exc' = "browser.close"
          /\ UNCHANGED <<browserOpen, log>>
    /\ pc' = "with_exit"
    /\ UNCHANGED <<svg_file, formats, fs, trash, data_uri, idx, pw, nLaunched,
                   contextOpen, page, download>>

\* Leaving `with sync_playwright()`: auto_download returns to main, or the
\* exception in flight reaches main's except clause.  browserOpen and
\* contextOpen record what the script's own close() calls have released; the
\* block's teardown is the library's and calls neither.
ExitPlaywright ==
    /\ pc = "with_exit"
    /\ pw' = "off"
    /\ page' = <<>>
    /\ download' = <<>>
    /\ \/ /\ exc = "none"
          /\ pc' = "send2trash"
          /\ UNCHANGED <<exc, log>>
       \/ /\ exc # "none"
          /\ MainExcept(exc)
    /\ UNCHANGED <<svg_file, formats, fs, trash, data_uri, idx, nLaunched,
                   browserOpen, contextOpen>>

\* ----------------------------------------------------------------- cleanup

\* try: send2trash(html_filename); print / except Exception: print
SendToTrash ==
    /\ pc = "send2trash"
    /\ \/ /\ html_filename(output_format) \in DOMAIN fs
          /\ fs' = FsUnlink(fs, html_filename(output_format))
          /\ trash' = trash \cup {html_filename(output_format)}
          /\ log' = Append(log, <<"send2trash_ok", html_filename(output_format)>>)
          /\ idx' = idx + 1
          /\ pc' = "loop"
       \/ /\ log' = Append(log, <<"send2trash_failed", html_filename(output_format)>>)
          /\ pc' = "os.remove"
          /\ UNCHANGED <<fs, trash, idx>>
    /\ UNCHANGED <<svg_file, formats, data_uri, exc, pw, nLaunched,
                   browserOpen, contextOpen, page, download>>

\* A plausible slip: os.remove is not wrapped in its own try.
OsRemoveUncaught ==
    /\ pc = "os.remove"
    /\ \/ /\ html_filename(output_format) \in DOMAIN fs
          /\ fs' = FsUnlink(fs, html_filename(output_format))
          /\ log' = Append(log, <<"os.remove_ok", html_filename(output_format)>>)
          /\ idx' = idx + 1
          /\ pc' = "loop"
          /\ UNCHANGED exc
       \/ /\ MainExcept("os.remove")
          /\ UNCHANGED <<fs, idx>>
    /\ UNCHANGED <<svg_file, formats, trash, data_uri, pw, nLaunched,
                   browserOpen, contextOpen, page, download>>

\* try: os.remove(html_filename) / except: print that the file is left
OsRemove ==
    /\ pc = "os.remove"
    /\ \/ /\ html_filename(output_format) \in DOMAIN fs
          /\ fs' = FsUnlink(fs, html_filename(output_format))
          /\ log' = Append(log, <<"os.remove_ok", html_filename(output_format)>>)
       \/ /\ log' = Append(log, <<"os.remove_failed", html_filename(output_format)>>)
          /\ UNCHANGED fs
    /\ idx' = idx + 1
    /\ pc' = "loop"
    /\ UNCHANGED <<svg_file, formats, trash, data_uri, exc, pw, nLaunched,
                   browserOpen, contextOpen, page, download>>

\* ------------------------------------------------------------ specifications

Next ==
    \/ MainEncode
    \/ LoopDone
    \/ SkipInvalid
    \/ GenerateHtml
    \/ StartPlaywright
    \/ Launch
    \/ NewContext
    \/ NewPage
    \/ Goto
    \/ Click
    \/ ExpectDownload
    \/ SaveAs
    \/ ContextClose
    \/ BrowserClose
    \/ ExitPlaywright
    \/ SendToTrash
    \/ OsRemove

Spec == Init /\ [][Next]_vars

\* The encoder applied to every bounded file content.
NextEnc == MainEncode

SpecEnc == InitEnc /\ [][NextEnc]_vars

TypeOK ==
    /\ pc \in {"start", "loop", "sync_playwright", "launch", "new_context", "new_page",
               "goto", "click", "expect_download", "save_as", "context_close",
               "browser_close", "with_exit", "send2trash", "os.remove", "done", "aborted"}
    /\ idx \in 1..(Len(formats) + 1)
    /\ pw \in {"on", "off"}
    /\ browserOpen \subseteq 1..nLaunched
    /\ contextOpen \subseteq browserOpen
    /\ Len(page) <= 1
    /\ Len(download) <= 1

\* ------------------------------------------------- vocabulary of the claims

Terminal == pc \in {"done", "aborted"}

\* The steps of auto_download's try block: navigation, the click on the
\* control, the wait for the download, and saving it.
RenderSteps == {"goto", "click", "expect_download", "save_as"}

\* The positions in the script that lie inside auto_download.
InAutoDownload ==
    pc \in {"sync_playwright", "launch", "new_context", "new_page", "goto", "click",
            "expect_download", "save_as", "context_close", "browser_close", "with_exit"}

Events(tag) == {i \in 1..Len(log) : log[i][1] = tag}

Has(tag, arg) == \E i \in Events(tag) : log[i][2] = arg

\* The log entries that end the cleanup of one document.
CleanupEnd == {"send2trash_ok", "os.remove_ok", "os.remove_failed"}

\* The image files in the working directory.
Outputs == {n \in DOMAIN fs : fs[n].kind = "image"}

\* The temporary documents in the working directory.
TempDocs == {n \in DOMAIN fs : fs[n].kind = "html"}

HasPrefix(s, prefix) ==
    Len(s) >= Len(prefix) /\ SubSeq(s, 1, Len(prefix)) = prefix

B64Index(c) == CHOOSE i \in 0..63 : B64Alphabet[i + 1] = c

\* base64 decoding of a padded payload, as a reader of the data URI does it.
RECURSIVE B64Decode(_)
B64Decode(cs) ==
    IF Len(cs) < 4 THEN <<>>
    ELSE LET a == B64Index(cs[1])
             b == B64Index(cs[2])
         IN  IF cs[3] = "="
             THEN <<(a * 4) + (b \div 16)>>
             ELSE LET c == B64Index(cs[3])
                  IN  IF cs[4] = "="
                      THEN <<(a * 4) + (b \div 16), ((b % 16) * 16) + (c \div 4)>>
                      ELSE <<(a * 4) + (b \div 16), ((b % 16) * 16) + (c \div 4),
                             ((c % 4) * 64) + B64Index(cs[4])>>
                           \o B64Decode(SubSeq(cs, 5, Len(cs)))

\* The payload of the data URI main holds.
Payload == SubSeq(data_uri, Len(DataUriPrefix) + 1, Len(data_uri))

\* The bytes of the SVG file on disk.
SvgBytes == fs[svg_file].body

\* bs with every CR LF pair and every other CR replaced by one LF.
RECURSIVE CrToLf(_)
CrToLf(bs) ==
    IF bs = <<>> THEN <<>>
    ELSE IF bs[1] # 13 THEN <<bs[1]>> \o CrToLf(Tail(bs))
    ELSE IF Len(bs) > 1 /\ bs[2] = 10 THEN <<10>> \o CrToLf(SubSeq(bs, 3, Len(bs)))
    ELSE <<10>> \o CrToLf(Tail(bs))

Encoded == pc = "loop" /\ svg_file \in DOMAIN fs

\* ------------------------------------------------------------------ claims

\* The position in formats of the document generated last before log entry i.
FormatAt(i) ==
    LET gen == {k \in Events("generate_html") : k < i}
    IN  log[CHOOSE k \in gen : \A m \in gen : m <= k][2]

\* C1 (as claimed): over the configured formats [png, jpg], when navigation,
\* the click or the download has failed for one format and the run has ended,
\* the document of every later format has been generated all the same.
C1_FailureIsolatedToFormat ==
    (formats = OUTPUT_FORMATS /\ Terminal) =>
        \A i \in Events("print_error") :
            log[i][2] \in RenderSteps =>
                \A j \in (FormatAt(i) + 1)..Len(formats) : Has("generate_html", j)

\* C2 (as claimed): once the run has ended, every generated document has had
\* its cleanup attempted (send2trash called on it) after it was generated,
\* whether auto_download returned or raised.
C2_CleanupAfterEveryDownload ==
    Terminal =>
        \A i \in Events("generate_html") :
            \E k \in (i + 1)..Len(log) :
                /\ log[k][1] \in {"send2trash_ok", "send2trash_failed"}
                /\ log[k][2] = html_filename(formats[log[i][2]])

C4_TwoOutputsNoTempLeft ==
    (formats = OUTPUT_FORMATS /\ pc = "done") =>
        /\ Outputs = {<<"logo", ".", "png">>, <<"logo", ".", "jpg">>}
        /\ TempDocs = {}

\* C4 (amended): a completed run over [png, jpg] ends with exactly the two
\* output files; each temporary document was moved to the trash or deleted,
\* or else is still in the working directory because both the trash-move and
\* the delete of it failed, which was reported.
C4_TwoOutputsTempGoneOrReported ==
    (formats = OUTPUT_FORMATS /\ pc = "done") =>
        /\ Outputs = {<<"logo", ".", "png">>, <<"logo", ".", "jpg">>}
        /\ \A f \in {"png", "jpg"} :
              IF html_filename(f) \in DOMAIN fs
              THEN /\ Has("send2trash_failed", html_filename(f))
                   /\ Has("os.remove_failed", html_filename(f))
              ELSE \/ html_filename(f) \in trash
                   \/ Has("os.remove_ok", html_filename(f))

\* C4 witness: a completed run over [png, jpg] where one document went to the
\* trash and the other could be neither trashed nor deleted.
C4_Witness ==
    /\ formats = OUTPUT_FORMATS
    /\ pc = "done"
    /\ html_filename("png") \in trash
    /\ html_filename("jpg") \in DOMAIN fs

\* C5: when the source path does not exist the run stops at the encoder with a
\* file-not-found error: nothing is written to the working directory, no
\* browser is launched, and the loop over the formats is never entered.
C5_MissingSourceAborts ==
    svg_file \notin DOMAIN fs =>
        /\ pc \in {"start", "aborted"}
        /\ DOMAIN fs = {}
        /\ nLaunched = 0
        /\ pw = "off"
        /\ pc = "aborted" =>
              /\ exc = "FileNotFoundError"
              /\ log = << <<"print_error", "FileNotFoundError">> >>

\* C5 witness: the run over a missing source has aborted.
C5_Witness == svg_file \notin DOMAIN fs /\ pc = "aborted"

\* C6: a format other than "png"/"jpg" is skipped with a warning: no document
\* is generated and no browser launched for it, the run never aborts at it,
\* and every valid format before the loop's position has been generated.
C6_InvalidFormatSkipped ==
    /\ \A i \in Events("generate_html") : formats[log[i][2]] \in {"png", "jpg"}
    /\ Cardinality(Events("launch")) <= Cardinality(Events("generate_html"))
    /\ pc # "start" =>
          \A j \in 1..(idx - 1) :
              IF formats[j] \in {"png", "jpg"}
              THEN Has("generate_html", j)
              ELSE Has("print_invalid", formats[j]) /\ ~Has("generate_html", j)
    /\ (pc = "aborted" /\ exc \notin {"FileNotFoundError", "UnicodeDecodeError"})
          => (idx <= Len(formats) /\ formats[idx] \in {"png", "jpg"})
    /\ pc = "done" =>
          \A j \in 1..Len(formats) :
              formats[j] \in {"png", "jpg"}
                  => Has("saved", <<"logo", ".", formats[j]>>)

\* C6 witness: a run over [gif, jpg] has skipped gif and exported the jpg.
C6_Witness ==
    /\ formats = <<"gif", "jpg">>
    /\ pc = "done"
    /\ Has("print_invalid", "gif")
    /\ Has("saved", <<"logo", ".", "jpg">>)

\* C7: cleanup tries trash-move first; the delete is attempted only right
\* after a failed trash-move; the file is left (and reported) only by a failed
\* delete; and whatever the outcome the loop goes on to the next format.
C7_CleanupOrderNonFatal ==
    \A i \in 1..Len(log) :
        /\ log[i][1] \in {"os.remove_ok", "os.remove_failed"} =>
              i > 1 /\ log[i - 1] = <<"send2trash_failed", log[i][2]>>
        /\ log[i][1] = "send2trash_failed" =>
              IF i = Len(log) THEN pc = "os.remove"
              ELSE log[i + 1][1] \in {"os.remove_ok", "os.remove_failed"}
        /\ log[i][1] \in {"send2trash_ok", "send2trash_failed"} =>
              i > 1 /\ log[i - 1][1] = "browser.close"
        /\ log[i][1] \in CleanupEnd =>
              IF i = Len(log) THEN pc \in {"loop", "done"}
              ELSE \/ log[i + 1][1] \in {"print_invalid", "generate_html"}
                   \/ log[i + 1] = <<"print_error", "generate_html">>

\* C7 witness: a document could be neither trashed nor deleted, and the next
\* format's document was generated afterwards.
C7_Witness ==
    \E i \in Events("os.remove_failed") : \E j \in Events("generate_html") : i < j

\* C8 (as claimed): the encoder's result begins with the data-URI prefix and
\* its base64 payload decodes to exactly the bytes of the file.
C8_RoundTripLossless ==
    Encoded => HasPrefix(data_uri, DataUriPrefix) /\ B64Decode(Payload) = SvgBytes

\* C8 (amended): the encoder's result begins with the data-URI prefix and its
\* base64 payload decodes to the bytes of the file with every CR LF pair and
\* every other CR replaced by one LF; so the round trip is lossless for a file
\* with no CR byte.
C8_RoundTripUpToNewlines ==
    Encoded =>
        /\ HasPrefix(data_uri, DataUriPrefix)
        /\ B64Decode(Payload) = CrToLf(SvgBytes)
        /\ (\A i \in 1..Len(SvgBytes) : SvgBytes[i] # 13) => B64Decode(Payload) = SvgBytes

\* C8 witness: a file with a CR LF pair and a two-byte character was encoded.
C8_Witness ==
    Encoded /\ SvgBytes \in {<<13, 10, 60>>, <<195, 169, 13>>}

\* C9: at most one browser is open at any time, no browser or context is open
\* while the loop is between two formats or generating a document, and by
\* then the cleanup of every document generated so far has ended.
C9_OneBrowserAtATime ==
    /\ Cardinality(browserOpen) <= 1
    /\ pc \in {"loop", "sync_playwright", "launch"} =>
          browserOpen = {} /\ contextOpen = {}
    /\ pc = "loop" =>
          \A i \in Events("generate_html") :
              \E k \in (i + 1)..Len(log) : log[k][1] \in CleanupEnd

\* C9 witness: the second format's browser is open after the first was closed.
C9_Witness == nLaunched = 2 /\ pc = "new_context" /\ browserOpen = {2}

\* C10: the label auto_download looks for is the label of the control in the
\* document generated for the same format, at the click and for every
\* temporary document present.
C10_LabelsAgree ==
    /\ pc = "click" => page[1].button_text = auto_download_button_text(output_format)
    /\ \A f \in {"png", "jpg"} :
          html_filename(f) \in TempDocs
              => fs[html_filename(f)].body.button_text = auto_download_button_text(f)

\* C10 witness: the jpg document is loaded and about to be clicked.
C10_Witness == pc = "click" /\ output_format = "jpg"

====
